---------------------------- MODULE Spec2Model ----------------------------
(***************************************************************************)
(* A model of the ray tracer in src/src/raytracer.rs, src/src/vector.rs    *)
(* and src/src/main.rs.                                                    *)
(*                                                                         *)
(* Numbers.  An f64 is modelled as a tagged pair: <<"fin", n>> is the      *)
(* finite value n/Scale (fixed point, results rounded to the nearest       *)
(* 1/Scale instead of the nearest binary64), <<"inf", 1>> and              *)
(* <<"inf", -1>> are the two infinities and <<"nan", 0>> is NaN.  The      *)
(* special values follow IEEE 754 as the Rust operators do: x/0 is an      *)
(* infinity or NaN, every comparison with NaN is false, min and max        *)
(* ignore a NaN operand, and a finite result beyond the largest finite     *)
(* number (FinMax/Scale here, f64::MAX there) is an infinity.  Signed      *)
(* zeros are not distinguished (a zero divisor is +0).  Every operation    *)
(* is computed within 32-bit integers.                                     *)
(***************************************************************************)
EXTENDS Integers, Sequences, FiniteSets, TLC

\* 1/Scale is the resolution of the fixed-point numbers: the smallest
\* literal of the program, the 0.001 of the shadow and reflection bias.
Scale == 1000

\* The ends of i32.
I32Max == 2147483647
I32Min == -2147483647 - 1

\* The largest magnitude of a finite number, in units of 1/Scale.
FinMax == I32Max \div 10

Fin(n) == <<"fin", n>>
PosInf == <<"inf", 1>>
NegInf == <<"inf", -1>>
NaN    == <<"nan", 0>>

IsNaN(a) == a[1] = "nan"
IsInf(a) == a[1] = "inf"
IsFin(a) == a[1] = "fin"

\* The sign of a value that is not NaN: -1, 0 or 1.
Sgn(a) == IF a[2] > 0 THEN 1 ELSE IF a[2] < 0 THEN -1 ELSE 0

Inf(s) == IF s > 0 THEN PosInf ELSE NegInf

Abs(n) == IF n < 0 THEN -n ELSE n
Max(m, n) == IF m >= n THEN m ELSE n
Min(m, n) == IF m <= n THEN m ELSE n

\* Evaluation order.  Rust evaluates an argument once, before the call:
\* Only({F(v) : v \in {e}}) is F(e) with e evaluated once, before F.
\* A parameter x_ is the argument as passed and x its value.
Only(S) == CHOOSE v \in S : TRUE

\* The number of sign s and magnitude m: an infinity beyond FinMax.
Signed(s, m_) ==
    Only({IF m > FinMax THEN Inf(s) ELSE Fin(s * m) : m \in {m_}})

\* n/d rounded to the nearest integer (ties away from zero), for n >= 0, d > 0.
RoundDiv(n, d) == (n + d \div 2) \div d

\* n/d truncated towards zero, for d > 0.
TruncDiv(n, d) == IF n >= 0 THEN n \div d ELSE -((-n) \div d)

\* m * n / Scale rounded to the nearest, for FinMax >= m >= n >= 0, computed
\* within 32 bits; more than FinMax when the product is beyond FinMax.
MulMag(m_, n_) ==
    Only({IF n > 0 /\ m \div Scale > FinMax \div n THEN FinMax + 1
          ELSE (m \div Scale) * n + RoundDiv((m % Scale) * n, Scale) :
            m \in {m_}, n \in {n_}})

\* Long division of r by d (r < d), one decimal digit a step: the digit
\* and the remainder of a step, within 32 bits.
Digit(r, d) == (r * 10) \div d
Rest(r, d) == (r * 10) % d

\* The three digits of r / d after the point (Scale is 10^3), the last one
\* rounded to the nearest.
FracDigits(r_, d) ==
    Only({100 * Digit(r, d) + 10 * Digit(Rest(r, d), d)
          + Digit(Rest(Rest(r, d), d), d)
          + (IF 2 * Rest(Rest(Rest(r, d), d), d) >= d THEN 1 ELSE 0) :
            r \in {r_}})

\* m * Scale / d rounded to the nearest, for FinMax >= m >= 0 and d > 0,
\* computed within 32 bits; more than FinMax when the quotient is beyond it.
DivMag(m, d) ==
    IF m \div d > FinMax \div Scale THEN FinMax + 1
    ELSE (m \div d) * Scale + FracDigits(m % d, d)

FNeg(a_) == Only({IF IsNaN(a) THEN NaN ELSE <<a[1], -a[2]>> : a \in {a_}})

FAdd(a_, b_) ==
    Only({IF IsNaN(a) \/ IsNaN(b) THEN NaN
          ELSE IF IsInf(a) THEN (IF IsInf(b) /\ b[2] # a[2] THEN NaN ELSE a)
          ELSE IF IsInf(b) THEN b
          ELSE IF a[2] >= 0 /\ b[2] > FinMax - a[2] THEN PosInf
          ELSE IF a[2] < 0 /\ b[2] < -FinMax - a[2] THEN NegInf
          ELSE Fin(a[2] + b[2]) :
            a \in {a_}, b \in {b_}})

FSub(a, b) == FAdd(a, FNeg(b))

FMul(a_, b_) ==
    Only({IF IsNaN(a) \/ IsNaN(b) THEN NaN
          ELSE IF IsInf(a) \/ IsInf(b)
               THEN (IF Sgn(a) * Sgn(b) = 0 THEN NaN ELSE Inf(Sgn(a) * Sgn(b)))
          ELSE Signed(Sgn(a) * Sgn(b),
                      MulMag(Max(Abs(a[2]), Abs(b[2])),
                             Min(Abs(a[2]), Abs(b[2])))) :
            a \in {a_}, b \in {b_}})

FDiv(a_, b_) ==
    Only({IF IsNaN(a) \/ IsNaN(b) THEN NaN
          ELSE IF IsInf(a) THEN (IF IsInf(b) THEN NaN
                                 ELSE Inf(IF b[2] < 0 THEN -a[2] ELSE a[2]))
          ELSE IF IsInf(b) THEN Fin(0)
          ELSE IF b[2] = 0 THEN (IF a[2] = 0 THEN NaN ELSE Inf(a[2]))
          ELSE Signed(Sgn(a) * Sgn(b), DivMag(Abs(a[2]), Abs(b[2]))) :
            a \in {a_}, b \in {b_}})

\* a < b and a > b on f64: false when either side is NaN.
FLt(a_, b_) ==
    \E a \in {a_}, b \in {b_} :
        /\ ~IsNaN(a) /\ ~IsNaN(b)
        /\ IF IsInf(a) THEN a[2] < 0 /\ b # a
           ELSE IF IsInf(b) THEN b[2] > 0
           ELSE a[2] < b[2]

FGt(a, b) == FLt(b, a)

\* f64::max and f64::min: a NaN operand is ignored.
FMax(a_, b_) ==
    Only({IF IsNaN(a) THEN b ELSE IF IsNaN(b) THEN a
          ELSE IF FLt(a, b) THEN b ELSE a :
            a \in {a_}, b \in {b_}})

FMin(a_, b_) ==
    Only({IF IsNaN(a) THEN b ELSE IF IsNaN(b) THEN a
          ELSE IF FLt(b, a) THEN b ELSE a :
            a \in {a_}, b \in {b_}})

FAbs(a_) ==
    Only({IF IsNaN(a) THEN NaN ELSE <<a[1], IF a[2] < 0 THEN -a[2] ELSE a[2]>> :
            a \in {a_}})

\* Whether r * r <= n * Scale for r = q * Scale + t, within 32 bits.
SquareAtMost(q, t, n) ==
    \/ q * q * Scale + 2 * q * t + (t * t) \div Scale < n
    \/ /\ q * q * Scale + 2 * q * t + (t * t) \div Scale = n
       /\ (t * t) % Scale = 0

\* The integer square root of n * Scale (FinMax >= n >= 0), one base-16
\* digit at a time: the largest r = base + k * step (k in 0..15) whose
\* square is at most n * Scale.
ISqrtDigit(n, base_, step) ==
    Only({base + step * Cardinality({k \in 1..15 :
                                  SquareAtMost((base + k * step) \div Scale,
                                               (base + k * step) % Scale, n)}) :
            base \in {base_}})

ISqrt(n) ==
    ISqrtDigit(n,
      ISqrtDigit(n,
        ISqrtDigit(n, ISqrtDigit(n, ISqrtDigit(n, 0, 65536), 4096), 256), 16), 1)

FSqrt(a_) ==
    Only({IF IsNaN(a) THEN NaN
          ELSE IF IsInf(a) THEN (IF a[2] > 0 THEN PosInf ELSE NaN)
          ELSE IF a[2] < 0 THEN NaN
          ELSE Fin(ISqrt(a[2])) :
            a \in {a_}})

\* a == b on f64: false when either side is NaN.
FEq(a_, b_) == \E a \in {a_}, b \in {b_} : ~IsNaN(a) /\ ~IsNaN(b) /\ a = b

FFloor(a_) ==
    Only({IF IsFin(a) THEN Fin((a[2] \div Scale) * Scale) ELSE a : a \in {a_}})

\* a * a.
FSquare(a_) == Only({FMul(a, a) : a \in {a_}})

\* f64::powf for an exponent that is a whole number >= 0, by squaring:
\* x^0 = 1 and 1^n = 1 for every x and n, NaN included.
RECURSIVE FPowN(_, _)
FPowN(a_, n) ==
    Only({IF n = 0 \/ a = Fin(Scale) THEN Fin(Scale)
          ELSE IF n % 2 = 0 THEN FPowN(FSquare(a), n \div 2)
          ELSE FMul(a, FPowN(a, n - 1)) :
            a \in {a_}})

FPowf(a, e) == FPowN(a, e[2] \div Scale)

\* `as i32` on an f64: truncation, saturating at the ends, NaN is 0.
AsI32(a_) ==
    Only({IF IsNaN(a) THEN 0
          ELSE IF IsInf(a) THEN (IF a[2] > 0 THEN I32Max ELSE I32Min)
          ELSE TruncDiv(a[2], Scale) :
            a \in {a_}})

\* The % of Rust on i32 with divisor 2: the remainder has the dividend's sign.
Rem2(k_) == Only({IF k >= 0 THEN k % 2 ELSE -((-(k + 2)) % 2) : k \in {k_}})

AsF64(k) == Fin(k * Scale)

-----------------------------------------------------------------------------
(* src/src/vector.rs *)

\* v3!(x, y, z) of literals given in units of 1/Scale.
v3(x, y, z) == [x |-> Fin(x), y |-> Fin(y), z |-> Fin(z)]

VAdd(a_, b_) ==
    Only({[x |-> FAdd(a.x, b.x), y |-> FAdd(a.y, b.y), z |-> FAdd(a.z, b.z)] :
            a \in {a_}, b \in {b_}})

VSub(a_, b_) ==
    Only({[x |-> FSub(a.x, b.x), y |-> FSub(a.y, b.y), z |-> FSub(a.z, b.z)] :
            a \in {a_}, b \in {b_}})

VMul(a_, s_) ==
    Only({[x |-> FMul(a.x, s), y |-> FMul(a.y, s), z |-> FMul(a.z, s)] :
            a \in {a_}, s \in {s_}})

Dot(a_, b_) ==
    Only({FAdd(FAdd(FMul(a.x, b.x), FMul(a.y, b.y)), FMul(a.z, b.z)) :
            a \in {a_}, b \in {b_}})

Cross(a_, b_) ==
    Only({[x |-> FSub(FMul(a.y, b.z), FMul(a.z, b.y)),
           y |-> FSub(FMul(a.z, b.x), FMul(a.x, b.z)),
           z |-> FSub(FMul(a.x, b.y), FMul(a.y, b.x))] :
            a \in {a_}, b \in {b_}})

VDiv(a_, len_) ==
    Only({[x |-> FDiv(a.x, len), y |-> FDiv(a.y, len), z |-> FDiv(a.z, len)] :
            a \in {a_}, len \in {len_}})

Normalize(a_) == Only({VDiv(a, FSqrt(Dot(a, a))) : a \in {a_}})

-----------------------------------------------------------------------------
(* src/src/raytracer.rs: the primitives.  A value a function computes once *)
(* and uses several times is the parameter of the operator that models the *)
(* rest of the function.                                                   *)

\* Option<Intersection>: None is the empty sequence, Some(i) is <<i>>.
None == <<>>
Some(i) == <<i>>

Material(shininess, spec_color, color, reflection) ==
    [shininess |-> shininess, spec_color |-> spec_color,
     color |-> color, reflection |-> reflection]

Sphere(pos, radius, material) ==
    [kind |-> "Sphere", pos |-> pos, radius |-> radius, material |-> material]

Plane(pos, normal, material) ==
    [kind |-> "Plane", pos |-> pos, normal |-> normal, material |-> material]

BBox(v1, v2, material) ==
    [kind |-> "BBox", v1 |-> v1, v2 |-> v2, material |-> material]

Ray(origin, dir) == [origin |-> origin, dir |-> dir]

Intersection(pos, normal, dist, material) ==
    [pos |-> pos, normal |-> normal, dist |-> dist, material |-> material]

\* BBox::intersects, one axis: with t1 <= t2 of that axis, the updates of
\* tnear (and of the normal, to the axis's n) and of tfar.
SlabUpdate(s, t1, t2, n) ==
    [tnear |-> IF FGt(t1, s.tnear) THEN t1 ELSE s.tnear,
     tfar  |-> IF FLt(t2, s.tfar) THEN t2 ELSE s.tfar,
     n     |-> IF FGt(t1, s.tnear) THEN n ELSE s.n]

\* The swap of t1 and t2.
SlabSwap(s, t1_, t2_, n) ==
    Only({IF FGt(t1, t2) THEN SlabUpdate(s, t2, t1, n)
          ELSE SlabUpdate(s, t1, t2, n) :
            t1 \in {t1_}, t2 \in {t2_}})

\* The two divisions of an axis: faces lo and hi, ray origin o, direction d.
Slab(s, lo, hi, o, d, n) ==
    SlabSwap(s, FDiv(FSub(lo, o), d), FDiv(FSub(hi, o), d), n)

\* The test that ends each axis: tnear > tfar || tfar < 0.0.
SlabMiss(s) == FGt(s.tnear, s.tfar) \/ FLt(s.tfar, Fin(0))

BBoxHit(self, ray, s_) ==
    Only({IF SlabMiss(s) THEN None
          ELSE Some(Intersection(VAdd(ray.origin, VMul(ray.dir, s.tnear)),
                                 s.n, s.tnear, self.material)) :
            s \in {s_}})

BBoxZ(self, ray, s_) ==
    Only({IF SlabMiss(s) THEN None
          ELSE BBoxHit(self, ray,
                       Slab(s, self.v1.z, self.v2.z, ray.origin.z, ray.dir.z,
                            v3(0, 0, -Scale))) :
            s \in {s_}})

BBoxY(self, ray, s_) ==
    Only({IF SlabMiss(s) THEN None
          ELSE BBoxZ(self, ray,
                     Slab(s, self.v1.y, self.v2.y, ray.origin.y, ray.dir.y,
                          v3(0, Scale, 0))) :
            s \in {s_}})

BBoxIntersects(self, ray) ==
    IF /\ FEq(ray.dir.x, Fin(0))
       /\ FLt(ray.origin.x, self.v1.x)
       /\ FGt(ray.origin.x, self.v2.x)
    THEN None
    ELSE BBoxY(self, ray,
               Slab([tnear |-> NegInf, tfar |-> PosInf, n |-> v3(Scale, 0, 0)],
                    self.v1.x, self.v2.x, ray.origin.x, ray.dir.x,
                    v3(Scale, 0, 0)))

\* Sphere::intersects from the hit point p at distance t.
SphereAt(self, p_, t) ==
    Only({Some(Intersection(p, Normalize(VSub(p, self.pos)), t, self.material)) :
            p \in {p_}})

\* ... from t.
SphereT(self, ray, t_) ==
    Only({SphereAt(self, VAdd(ray.origin, VMul(ray.dir, t)), t) : t \in {t_}})

\* ... from the roots t0 and t1.
SphereRoots(self, ray, t0_, t1_) ==
    Only({IF FLt(t0, Fin(0)) /\ FLt(t1, Fin(0)) THEN None
          ELSE SphereT(self, ray, IF FLt(t0, Fin(0)) THEN t1 ELSE FMin(t0, t1)) :
            t0 \in {t0_}, t1 \in {t1_}})

SphereThc(self, ray, tca, thc_) ==
    Only({SphereRoots(self, ray, FSub(tca, thc), FAdd(tca, thc)) :
            thc \in {thc_}})

\* ... from d2 and radius2.
SphereD2(self, ray, tca, d2_, radius2_) ==
    Only({IF FGt(d2, radius2) THEN None
          ELSE SphereThc(self, ray, tca, FSqrt(FSub(radius2, d2))) :
            d2 \in {d2_}, radius2 \in {radius2_}})

\* ... from l and tca.
SphereTca(self, ray, l, tca_) ==
    Only({IF FLt(tca, Fin(0)) THEN None
          ELSE SphereD2(self, ray, tca,
                        FSquare(FSqrt(FSub(Dot(l, l), FMul(tca, tca)))),
                        FSquare(self.radius)) :
            tca \in {tca_}})

SphereL(self, ray, l_) ==
    Only({SphereTca(self, ray, l, Dot(l, ray.dir)) : l \in {l_}})

SphereIntersects(self, ray) == SphereL(self, ray, VSub(self.pos, ray.origin))

\* The checkerboard factor without the .abs().
PlaneCheckerNoAbs(p) ==
    AsF64(Rem2(AsI32(FAdd(FFloor(FMul(Fin(2 * Scale), p.z)),
                          FFloor(FMul(Fin(2 * Scale), p.x))))))

\* The checkerboard factor of Plane::intersects at the hit point p:
\* c.abs() for c = ((floor(2 p.z) + floor(2 p.x)) as i32 % 2) as f64.
PlaneChecker(p) ==
    FAbs(AsF64(Rem2(AsI32(FAdd(FFloor(FMul(Fin(2 * Scale), p.z)),
                               FFloor(FMul(Fin(2 * Scale), p.x)))))))

\* Plane::intersects from the hit point p at distance t.
PlaneAt(self, p_, t) ==
    Only({Some(Intersection(p, self.normal, t,
                 [self.material EXCEPT !.color = VMul(@, PlaneChecker(p))])) :
            p \in {p_}})

PlaneT(self, ray, t_) ==
    Only({IF FGt(t, Fin(0))
          THEN PlaneAt(self, VAdd(ray.origin, VMul(ray.dir, t)), t)
          ELSE None :
            t \in {t_}})

PlaneIntersects(self, ray) ==
    PlaneT(self, ray,
           FDiv(Dot(VSub(self.pos, ray.origin), self.normal),
                Dot(ray.dir, self.normal)))

\* The dynamic dispatch of Geometry::intersects.
Intersects(o, ray) ==
    CASE o.kind = "Sphere" -> SphereIntersects(o, ray)
      [] o.kind = "Plane"  -> PlaneIntersects(o, ray)
      [] o.kind = "BBox"   -> BBoxIntersects(o, ray)

\* Whether cast_ray's loop replaces the retained hit by the hit h.
Closer(h, closest) == h # None /\ FLt(h[1].dist, closest)

\* cast_ray's loop from object i on, with the running closest and isect;
\* CastStep is one iteration, h what objects[i].intersects returned.
RECURSIVE CastFrom(_, _, _, _, _)
CastStep(objects, ray, i, closest, isect, h_) ==
    Only({IF Closer(h, closest)
          THEN CastFrom(objects, ray, i + 1, h[1].dist, h)
          ELSE CastFrom(objects, ray, i + 1, closest, isect) :
            h \in {h_}})

CastFrom(objects, ray, i, closest_, isect_) ==
    Only({IF i > Len(objects) THEN isect
          ELSE CastStep(objects, ray, i, closest, isect,
                        Intersects(objects[i], ray)) :
            closest \in {closest_}, isect \in {isect_}})

cast_ray(sc, ray_) ==
    Only({CastFrom(sc.objects, ray, 1, PosInf, None) : ray \in {ray_}})

-----------------------------------------------------------------------------
(* src/src/raytracer.rs: shading *)

Light(pos, color) == [pos |-> pos, color |-> color]

Camera(pos, up, right, dist) ==
    [pos |-> pos, up |-> up, right |-> right, dist |-> dist]

\* blinn_phong's specular when diffuse > 0: view_dir, then half_dir, then
\* spec_angle, then its power.
Specular(light_dir, isect) ==
    Only({FPowf(spec_angle, isect.material.shininess) :
            spec_angle \in {FMax(Dot(half_dir, isect.normal), Fin(0)) :
               half_dir \in {Normalize(VAdd(light_dir, view_dir)) :
                  view_dir \in {Normalize(VMul(isect.pos, Fin(-Scale)))}}}})

\* blinn_phong's return expression.
BlinnPhongOf(material, diffuse, specular) ==
    VAdd(VMul(material.color, diffuse), VMul(material.spec_color, specular))

blinn_phong(light_dir, isect) ==
    Only({BlinnPhongOf(isect.material, ds[1], ds[2]) :
            ds \in {<<diffuse, IF FGt(diffuse, Fin(0))
                               THEN Specular(light_dir, isect)
                               ELSE Fin(0)>> :
               diffuse \in {FMax(Dot(light_dir, isect.normal), Fin(0))}}})

\* The background colour shade_pixel returns for a ray that hits nothing.
BackgroundHalfRed == v3(500, 400, Scale)
Background == v3(0, 400, Scale)

\* The ambient factor 0.1 and the bias 0.001 of the secondary rays.
Ambient == Fin(100)
Bias == Fin(1)

LightDir(light, isect) == Normalize(VSub(light.pos, isect.pos))

ShadowRay(isect, light_dir) ==
    Ray(VAdd(isect.pos, VMul(light_dir, Bias)), light_dir)

\* The accumulated colour after the direct and ambient part of one light's
\* iteration, shadow being what cast_ray returned for the shadow ray.
Direct(shadow, isect, light_dir, pixel) ==
    Only({VAdd(lit, VMul(isect.material.color, Ambient)) :
            lit \in {IF shadow # None THEN pixel
                     ELSE VAdd(pixel, blinn_phong(light_dir, isect))}})

\* ... from the light: light_dir, then the cast of the shadow ray.
DirectTerm(sc, isect, light, pixel) ==
    Only({Direct(s[2], isect, s[1], pixel) :
            s \in {<<light_dir, cast_ray(sc, ShadowRay(isect, light_dir))>> :
               light_dir \in {LightDir(light, isect)}}})

ReflectionDir(ray, isect) ==
    VSub(ray.dir,
         VMul(VMul(isect.normal, Dot(ray.dir, isect.normal)), Fin(2 * Scale)))

ReflectionRay(ray, isect) ==
    Only({Ray(VAdd(isect.pos, VMul(reflection_dir, Bias)), reflection_dir) :
            reflection_dir \in {ReflectionDir(ray, isect)}})

\* Whether a light's iteration makes the recursive call, also at budget 0.
ReflectsAtZero(isect, trace_depth) ==
    FGt(isect.material.reflection, Fin(0)) /\ trace_depth >= 0

\* Whether a light's iteration makes the recursive call.
Reflects(isect, trace_depth) ==
    FGt(isect.material.reflection, Fin(0)) /\ trace_depth > 0

\* The budget of the recursive call, two less than the caller's.
InnerBudgetTwoLess(trace_depth) == trace_depth - 2

\* The budget of the recursive call.
InnerBudget(trace_depth) == trace_depth - 1

\* The recursive call's result added to the accumulated colour.
ReflectedAdded(pixel, returned, isect) ==
    VAdd(pixel, VMul(returned, isect.material.reflection))

\* The accumulated colour after the recursive call returned `returned`,
\* pixel being the colour accumulated before it.
Reflected(pixel, returned, isect) == VMul(returned, isect.material.reflection)

-----------------------------------------------------------------------------
(* src/src/raytracer.rs: the render driver *)

\* The recursion budget raytrace gives every primary ray.
TraceDepth == 3

\* u (and v) of the pixel column x (row y) of n columns (rows).
Ndc(x, n) ==
    FSub(FDiv(FMul(AsF64(x), Fin(2 * Scale)), AsF64(n)), Fin(Scale))

\* The ray raytrace builds for u and v: forward, then pos, then ray_dir.
PrimaryRayOf(camera, u, v) ==
    Only({Ray(camera.pos, ray_dir) :
            ray_dir \in {Normalize(VSub(pos, camera.pos)) :
               pos \in {VAdd(VAdd(VAdd(camera.pos, VMul(forward, camera.dist)),
                                  VMul(camera.right, u)),
                             VMul(camera.up, v)) :
                  forward \in {Normalize(Cross(camera.right, camera.up))}}}})

PrimaryRay(sc, x, y, w, h) == PrimaryRayOf(sc.camera, Ndc(x, w), Ndc(y, h))

\* The buffer index without the flip of the rows.
PixelIndexUnflipped(x, y, w, h) == y * w + x

\* The buffer index raytrace writes for grid pixel (x, y), from 0.
PixelIndex(x, y, w, h) == (h - 1 - y) * w + x

\* vec![v3!(0.0, 0.0, 0.0); n]: a sequence, slot i of the Vec is buf[i + 1].
NewBuffer(n) == [i \in 1..n |-> v3(0, 0, 0)]

\* A store that adds what slot 0 holds to the colour it writes.
StoreSmeared(buf, i, colour) == [buf EXCEPT ![i + 1] = VAdd(colour, buf[1])]

\* pixels[i] = colour.
Store(buf, i, colour) == [buf EXCEPT ![i + 1] = colour]

-----------------------------------------------------------------------------
(* The materials and the cameras of the program, and the scenes and rays   *)
(* the model runs it on.                                                   *)

White == v3(Scale, Scale, Scale)

basic_material(color) == Material(Fin(16 * Scale), White, color, Fin(0))

red   == [basic_material(v3(Scale, 0, 0)) EXCEPT !.shininess = Fin(64 * Scale)]
green == basic_material(v3(0, Scale, 0))
mirror == Material(Fin(32 * Scale), White, White, Fin(700))
\* A perfect mirror: reflection coefficient 1.0.
mirror1 == [mirror EXCEPT !.reflection = Fin(Scale)]

\* The camera of scene().
DefaultCamera ==
    Camera(v3(0, 0, -Scale), v3(0, Scale, 0), v3(1330, 0, 0), Fin(2 * Scale))

\* The camera main() installs.
MainCamera ==
    Camera(v3(500, 2500, -Scale), Normalize(v3(0, Scale, 200)),
           v3(1330, 0, 0), Fin(2 * Scale))

SceneOf(camera, lights, objects) ==
    [camera |-> camera, lights |-> lights, objects |-> objects]

\* scene(): the default camera and no lights or objects.
EmptyScene == SceneOf(DefaultCamera, <<>>, <<>>)

\* Bounds of the model.
MaxObjects == 2
MaxLights == 2
MaxCoord == 2
MaxWidth == 3
MaxHeight == 3
MaxJobs == 4

SeqsUpTo(S, n) == UNION {[1..k -> S] : k \in 0..n}

RedSphere   == Sphere(v3(0, 0, 2 * Scale), Fin(Scale), red)
GreenSphere == Sphere(v3(0, 0, 2 * Scale), Fin(Scale), green)
Floor       == Plane(v3(0, -Scale, 0), v3(0, Scale, 0), red)
MirrorBox   == BBox(v3(-Scale, -Scale, -2 * Scale), v3(Scale, Scale, 0), mirror)
MirrorFloor == Plane(v3(0, -Scale, 0), v3(0, Scale, 0), mirror1)
MirrorRoof  == Plane(v3(0, Scale, 0), v3(0, Scale, 0), mirror)
MirrorBall  == Sphere(v3(0, 0, 2 * Scale), Fin(Scale), mirror1)

Catalogue == {RedSphere, GreenSphere, Floor, MirrorBox}

HighLight == Light(v3(0, 5 * Scale, 2 * Scale), White)
SideLight == Light(v3(4 * Scale, 0, -3 * Scale), White)

Dirs ==
    {v3(Scale, 0, 0), v3(-Scale, 0, 0), v3(0, Scale, 0), v3(0, -Scale, 0),
     v3(0, 0, Scale), v3(0, 0, -Scale), v3(0, -600, 800)}

Coords == {c * Scale : c \in -MaxCoord..MaxCoord}

\* Rays from the points of a grid (x on and between the grid lines, so
\* that the plane's tiles of both parities are hit).
CastRays ==
    {Ray([x |-> Fin(x), y |-> Fin(y), z |-> Fin(z)], d) :
        x \in {0, 500}, y \in Coords, z \in Coords, d \in Dirs}

ShadeRays == {r \in CastRays : r.origin.x = Fin(0) /\ r.origin.y = Fin(0)}

CastScenes ==
    {SceneOf(DefaultCamera, <<>>, objs) : objs \in SeqsUpTo(Catalogue, MaxObjects)}

ShadeObjects ==
    {<<>>, <<RedSphere, Floor>>, <<RedSphere, MirrorRoof>>,
     <<MirrorFloor, MirrorRoof>>, <<MirrorBall>>, <<MirrorBox, Floor>>}

\* The light lists of the scenes shade_pixel runs on: the first n of the
\* lights SideLight, HighLight, SideLight, ...
LightAt(k) == IF k % 2 = 1 THEN SideLight ELSE HighLight
ShadeLights == {[k \in 1..n |-> LightAt(k)] : n \in 0..MaxLights}

ShadeScenes ==
    {SceneOf(DefaultCamera, ls, objs) : ls \in ShadeLights, objs \in ShadeObjects}

RenderScenes ==
    {SceneOf(cam, ls, objs) :
        cam \in {DefaultCamera, MainCamera},
        ls \in {<<>>, <<HighLight>>},
        objs \in {<<RedSphere, Floor>>, <<MirrorBall, MirrorFloor>>}}

-----------------------------------------------------------------------------
VARIABLES
    scene,     \* the Scene: camera, lights, objects
    ray,       \* the ray given to cast_ray or to the outermost shade_pixel
    pc,        \* where the program is
    caller,    \* who called the outermost shade_pixel
    oi,        \* cast_ray: the index of the object the loop is at
    closest,   \* cast_ray: closest
    isect,     \* cast_ray: isect
    hits,      \* cast_ray: what o.intersects returned, object by object
    stack,     \* shade_pixel: the frames of the nested calls, outermost first
    ret,       \* shade_pixel: the value the outermost call returned
    calls,     \* shade_pixel: the number of calls made so far
    inner,     \* shade_pixel: the last call that returned to the outermost
               \* one: its ray, its budget and the colour it returned
    width,     \* raytrace: width
    height,    \* raytrace: height
    px,        \* raytrace: x of the inner loop
    py,        \* raytrace: y of the outer loop
    pixels,    \* raytrace: the buffer
    writes,    \* raytrace: the stores so far: grid pixel, index and colour
    todo,      \* out of order: the grid pixels not yet shaded
    jobs,      \* out of order: the pixels shaded and not yet stored
    shuffled   \* out of order: the buffer

vars == <<scene, ray, pc, caller, oi, closest, isect, hits, stack, ret, calls,
          inner, width, height, px, py, pixels, writes, todo, jobs, shuffled>>

castVars == <<oi, closest, isect, hits>>
shadeVars == <<stack, ret, calls, inner>>
renderVars == <<width, height, px, py, pixels, writes>>
anyVars == <<todo, jobs, shuffled>>

CastIdle == oi = 0 /\ closest = PosInf /\ isect = None /\ hits = <<>>
ShadeIdle == stack = <<>> /\ ret = None /\ calls = 0 /\ inner = None
RenderIdle ==
    /\ width = 0 /\ height = 0 /\ px = 0 /\ py = 0
    /\ pixels = <<>> /\ writes = <<>>
AnyIdle == todo = {} /\ jobs = {} /\ shuffled = <<>>

\* Before any call: the scene is what scene() returns.
Init ==
    /\ scene = EmptyScene
    /\ ray = Ray(v3(0, 0, 0), v3(0, 0, Scale))
    /\ pc = "idle"
    /\ caller = "none"
    /\ CastIdle /\ ShadeIdle /\ RenderIdle /\ AnyIdle

-----------------------------------------------------------------------------
(* cast_ray, one loop iteration a step *)

\* A call cast_ray(&scene, &ray).
CastCall ==
    /\ pc = "idle"
    /\ scene' \in CastScenes
    /\ ray' \in CastRays
    /\ pc' = "cast"
    /\ oi' = 1
    /\ UNCHANGED <<caller, closest, isect, hits, shadeVars, renderVars, anyVars>>

CastIter ==
    /\ pc = "cast"
    /\ oi <= Len(scene.objects)
    /\ \E h \in {Intersects(scene.objects[oi], ray)} :
           /\ hits' = Append(hits, h)
           /\ closest' = IF Closer(h, closest) THEN h[1].dist ELSE closest
           /\ isect' = IF Closer(h, closest) THEN h ELSE isect
    /\ oi' = oi + 1
    /\ UNCHANGED <<scene, ray, pc, caller, shadeVars, renderVars, anyVars>>

CastReturn ==
    /\ pc = "cast"
    /\ oi > Len(scene.objects)
    /\ pc' = "cast_done"
    /\ UNCHANGED <<scene, ray, caller, castVars, shadeVars, renderVars, anyVars>>

CastNext == CastCall \/ CastIter \/ CastReturn

SpecCast == Init /\ [][CastNext]_vars

-----------------------------------------------------------------------------
(* shade_pixel, its nested calls as a stack of frames.  A frame is at      *)
(* "cast" before the cast_ray of its ray, at "light" at the head of the    *)
(* loop over the lights (li the index of the next light), at "reflect"     *)
(* while its recursive call runs and at "return" with its result in pixel. *)

Frame(r, trace_depth) ==
    [ray |-> r, trace_depth |-> trace_depth, pixel |-> v3(0, 0, 0),
     isect |-> None, li |-> 0, at |-> "cast"]

Top == stack[Len(stack)]
SetTop(f) == [stack EXCEPT ![Len(stack)] = f]

\* A call shade_pixel(&scene, &ray, trace_depth).
ShadeCall ==
    /\ pc = "idle"
    /\ scene' \in ShadeScenes
    /\ \E r \in ShadeRays, trace_depth \in 0..TraceDepth :
          /\ ray' = r
          /\ stack' = <<Frame(r, trace_depth)>>
    /\ calls' = 1
    /\ pc' = "shade"
    /\ caller' = "test"
    /\ UNCHANGED <<ret, inner, castVars, renderVars, anyVars>>

\* match cast_ray(&scene, &ray): the None arm sets the background colour.
ShadeCast ==
    /\ pc = "shade"
    /\ Top.at = "cast"
    /\ \E h \in {cast_ray(scene, Top.ray)} :
          stack' = SetTop(IF h = None
                          THEN [Top EXCEPT !.pixel = Background, !.at = "return"]
                          ELSE [Top EXCEPT !.isect = h, !.li = 1, !.at = "light"])
    /\ UNCHANGED <<scene, ray, pc, caller, ret, calls, inner,
                   castVars, renderVars, anyVars>>

\* One light's iteration that makes no recursive call.
ShadeLight ==
    /\ pc = "shade"
    /\ Top.at = "light"
    /\ Top.li <= Len(scene.lights)
    /\ ~Reflects(Top.isect[1], Top.trace_depth)
    /\ \E p \in {DirectTerm(scene, Top.isect[1], scene.lights[Top.li], Top.pixel)} :
          stack' = SetTop([Top EXCEPT !.pixel = p, !.li = @ + 1])
    /\ UNCHANGED <<scene, ray, pc, caller, ret, calls, inner,
                   castVars, renderVars, anyVars>>

\* One light's iteration up to its recursive call.
ShadeReflect ==
    /\ pc = "shade"
    /\ Top.at = "light"
    /\ Top.li <= Len(scene.lights)
    /\ Reflects(Top.isect[1], Top.trace_depth)
    /\ \E p \in {DirectTerm(scene, Top.isect[1], scene.lights[Top.li], Top.pixel)},
          r \in {ReflectionRay(Top.ray, Top.isect[1])} :
          stack' = Append(SetTop([Top EXCEPT !.pixel = p, !.at = "reflect"]),
                          Frame(r, InnerBudget(Top.trace_depth)))
    /\ calls' = calls + 1
    /\ UNCHANGED <<scene, ray, pc, caller, ret, inner,
                   castVars, renderVars, anyVars>>

\* The loop over the lights is over.
ShadeLoopEnd ==
    /\ pc = "shade"
    /\ Top.at = "light"
    /\ Top.li > Len(scene.lights)
    /\ stack' = SetTop([Top EXCEPT !.at = "return"])
    /\ UNCHANGED <<scene, ray, pc, caller, ret, calls, inner,
                   castVars, renderVars, anyVars>>

\* A recursive call returns: the caller's pixel = shade_pixel(..) * reflection
\* and the end of that light's iteration.
ShadeReturnInner ==
    /\ pc = "shade"
    /\ Len(stack) > 1
    /\ Top.at = "return"
    /\ stack' = [SubSeq(stack, 1, Len(stack) - 1) EXCEPT
                   ![Len(stack) - 1] =
                       [@ EXCEPT !.pixel = Reflected(@, Top.pixel,
                                                     stack[Len(stack) - 1].isect[1]),
                                 !.li = @ + 1,
                                 !.at = "light"]]
    /\ inner' = IF Len(stack) = 2
                THEN Some([ray |-> Top.ray, trace_depth |-> Top.trace_depth,
                           pixel |-> Top.pixel])
                ELSE inner
    /\ UNCHANGED <<scene, ray, pc, caller, ret, calls, castVars, renderVars, anyVars>>

\* The outermost call returns; its frame is kept for the record.
ShadeReturnOuter ==
    /\ pc = "shade"
    /\ Len(stack) = 1
    /\ Top.at = "return"
    /\ ret' = Some(Top.pixel)
    /\ pc' = "shade_done"
    /\ UNCHANGED <<scene, ray, caller, stack, calls, inner,
                   castVars, renderVars, anyVars>>

\* The steps of shade_pixel once called.
ShadeStep ==
    \/ ShadeCast
    \/ ShadeLight
    \/ ShadeReflect
    \/ ShadeLoopEnd
    \/ ShadeReturnInner
    \/ ShadeReturnOuter

ShadeNext == ShadeCall \/ ShadeStep

Spec == Init /\ [][ShadeNext]_vars

\* shade_pixel is sequential code: a call that can take a step takes it.
FairSpec == Spec /\ WF_vars(ShadeStep)

-----------------------------------------------------------------------------
(* raytrace, one loop step a step; each pixel's shade_pixel runs as above. *)

\* A call raytrace(&scene, width, height) on a scene main() could build.
RenderCall ==
    /\ pc = "idle"
    /\ scene' \in RenderScenes
    /\ \E w \in 1..MaxWidth, h \in 1..MaxHeight :
          /\ width' = w
          /\ height' = h
          /\ pixels' = NewBuffer(w * h)
    /\ px' = 0
    /\ py' = 0
    /\ pc' = "render"
    /\ caller' = "raytrace"
    /\ UNCHANGED <<ray, writes, castVars, shadeVars, anyVars>>

\* The inner loop's body up to the call of shade_pixel.
RenderPixel ==
    /\ pc = "render"
    /\ py < height
    /\ px < width
    /\ \E r \in {PrimaryRay(scene, px, py, width, height)} :
          /\ ray' = r
          /\ stack' = <<Frame(r, TraceDepth)>>
    /\ ret' = None
    /\ inner' = None
    /\ calls' = 1
    /\ pc' = "shade"
    /\ UNCHANGED <<scene, caller, castVars, renderVars, anyVars>>

\* pixels[(height-1-y)*width+x] = what shade_pixel returned, and x += 1.
RenderStore ==
    /\ pc = "shade_done"
    /\ caller = "raytrace"
    /\ pixels' = Store(pixels, PixelIndex(px, py, width, height), ret[1])
    /\ writes' = Append(writes, [x |-> px, y |-> py,
                                 index |-> PixelIndex(px, py, width, height),
                                 colour |-> ret[1]])
    /\ px' = px + 1
    /\ stack' = <<>>
    /\ pc' = "render"
    /\ UNCHANGED <<scene, ray, caller, ret, calls, inner, width, height, py,
                   castVars, anyVars>>

\* The inner loop is over: y += 1.
RenderRowEnd ==
    /\ pc = "render"
    /\ py < height
    /\ px = width
    /\ px' = 0
    /\ py' = py + 1
    /\ UNCHANGED <<scene, ray, pc, caller, width, height, pixels, writes,
                   castVars, shadeVars, anyVars>>

\* The outer loop is over: raytrace returns pixels.
RenderReturn ==
    /\ pc = "render"
    /\ py = height
    /\ pc' = "render_done"
    /\ UNCHANGED <<scene, ray, caller, castVars, shadeVars, renderVars, anyVars>>

RenderStep ==
    \/ RenderPixel
    \/ RenderStore
    \/ RenderRowEnd
    \/ RenderReturn

-----------------------------------------------------------------------------
(* The same render with the loop body run for the grid pixels in any       *)
(* order: a pixel is picked and shaded, and what it shaded is stored at    *)
(* any later time, also while another pixel is being shaded.               *)

GridPixels == {[x |-> x, y |-> y] : x \in 0..(width - 1), y \in 0..(height - 1)}

AnyStart ==
    /\ pc = "render_done"
    /\ width * height <= MaxJobs
    /\ todo' = GridPixels
    /\ jobs' = {}
    /\ shuffled' = NewBuffer(width * height)
    /\ caller' = "any"
    /\ pc' = "any"
    /\ UNCHANGED <<scene, ray, castVars, shadeVars, renderVars>>

\* The loop body for a pixel not yet shaded, up to the call of shade_pixel.
AnyPixel ==
    /\ pc = "any"
    /\ \E p \in todo :
          /\ todo' = todo \ {p}
          /\ px' = p.x
          /\ py' = p.y
          /\ \E r \in {PrimaryRay(scene, p.x, p.y, width, height)} :
                /\ ray' = r
                /\ stack' = <<Frame(r, TraceDepth)>>
    /\ ret' = None
    /\ inner' = None
    /\ calls' = 1
    /\ pc' = "shade"
    /\ UNCHANGED <<scene, caller, width, height, pixels, writes, jobs, shuffled,
                   castVars>>

\* shade_pixel returned: the pixel's colour waits to be stored.
AnyShaded ==
    /\ pc = "shade_done"
    /\ caller = "any"
    /\ jobs' = jobs \cup {[x |-> px, y |-> py, colour |-> ret[1]]}
    /\ stack' = <<>>
    /\ pc' = "any"
    /\ UNCHANGED <<scene, ray, caller, ret, calls, inner, todo, shuffled,
                   castVars, renderVars>>

\* The store of a colour that waits.
AnyStore ==
    /\ caller = "any"
    /\ \E j \in jobs :
          /\ jobs' = jobs \ {j}
          /\ shuffled' = Store(shuffled, PixelIndex(j.x, j.y, width, height),
                               j.colour)
    /\ UNCHANGED <<scene, ray, pc, caller, todo, castVars, shadeVars, renderVars>>

AnyReturn ==
    /\ pc = "any"
    /\ todo = {}
    /\ jobs = {}
    /\ pc' = "any_done"
    /\ UNCHANGED <<scene, ray, caller, castVars, shadeVars, renderVars, anyVars>>

AnyStep ==
    \/ AnyStart
    \/ AnyPixel
    \/ AnyShaded
    \/ AnyStore
    \/ AnyReturn

RenderNext == RenderCall \/ RenderStep \/ ShadeStep \/ AnyStep

SpecRender == Init /\ [][RenderNext]_vars

-----------------------------------------------------------------------------
(* Properties of cast_ray and of the primitives, under SpecCast *)

HitAt(i) == hits[i][1]
IsHit(i) == hits[i] # None
CastDone == pc = "cast_done"

\* C1: cast_ray returns None exactly when no object intersects the ray;
\* otherwise it returns the hit of an object whose dist is the minimum over
\* all intersecting objects, the first such object in scene.objects.
C1_NearestHitFirstWins ==
    CastDone =>
        /\ (isect = None) <=> (\A i \in 1..Len(hits) : ~IsHit(i))
        /\ isect # None =>
             \E i \in 1..Len(hits) :
                /\ hits[i] = isect
                /\ \A j \in 1..Len(hits) :
                      IsHit(j) => ~FLt(HitAt(j).dist, HitAt(i).dist)
                /\ \A j \in 1..(i - 1) :
                      IsHit(j) => FGt(HitAt(j).dist, HitAt(i).dist)

\* The parity of k = floor(2 p.z) + floor(2 p.x) for a finite point p.
FinitePoint(p) == IsFin(p.x) /\ IsFin(p.y) /\ IsFin(p.z)
TileK(p) == (2 * p.z[2]) \div Scale + (2 * p.x[2]) \div Scale
OddTile(p) == TileK(p) % 2 = 1
IsPlaneHit(i) == scene.objects[i].kind = "Plane" /\ IsHit(i)
Black == v3(0, 0, 0)

C9_DistPositive ==
    \A i \in 1..Len(hits) : IsHit(i) => FGt(HitAt(i).dist, Fin(0))

-----------------------------------------------------------------------------
(* Properties of shade_pixel, under Spec and FairSpec *)

ShadeDone == pc = "shade_done"
Outer == stack[1]
OuterHit == Outer.isect[1]

\* The ray intersects no object of the scene.
IntersectsNothing(sc, r) ==
    \A i \in 1..Len(sc.objects) : Intersects(sc.objects[i], r) = None

\* C3 as stated: for a ray that intersects no object, shade_pixel returns
\* the colour (0.5, 0.4, 1.0), whatever the lights and the depth budget.
C3_MissReturnsHalfRedBackground ==
    ShadeDone /\ IntersectsNothing(scene, ray) => ret = Some(v3(500, 400, Scale))

\* C3 amended: for a ray that intersects no object, shade_pixel returns
\* exactly the colour (0.0, 0.4, 1.0), whatever the lights and the depth
\* budget.
C3_MissReturnsBackground ==
    ShadeDone /\ IntersectsNothing(scene, ray) => ret = Some(v3(0, 400, Scale))

\* A miss was shaded in a scene with objects and lights, on a positive
\* depth budget.
C3_Witness ==
    /\ ShadeDone
    /\ IntersectsNothing(scene, ray)
    /\ Len(scene.objects) > 0 /\ Len(scene.lights) > 0
    /\ Outer.trace_depth > 0

\* The mirror direction of dir about the normal n, and the ray from the
\* hit point p along it, 0.001 of it ahead.
MirrorDir(dir, n) == VSub(dir, VMul(VMul(n, Dot(dir, n)), Fin(2 * Scale)))
MirrorRay(dir, n, p) ==
    Ray(VAdd(p, VMul(MirrorDir(dir, n), Fin(1))), MirrorDir(dir, n))

\* The case of C5: budget 0, a hit on a material of reflection 1.0, and
\* nothing but background along the reflected ray.
C5_Case ==
    /\ ShadeDone
    /\ Outer.trace_depth = 0
    /\ Outer.isect # None
    /\ OuterHit.material.reflection = Fin(Scale)
    /\ cast_ray(scene, MirrorRay(ray.dir, OuterHit.normal, OuterHit.pos)) = None

\* What one light adds to pixel at the hit i with no reflection: the
\* ambient term, and the Blinn-Phong term when the shadow ray along
\* light_dir hits nothing.
LocalStep(sc, i, light_dir, pixel) ==
    VAdd(IF cast_ray(sc, Ray(VAdd(i.pos, VMul(light_dir, Fin(1))), light_dir))
            # None
         THEN pixel
         ELSE VAdd(pixel, blinn_phong(light_dir, i)),
         VMul(i.material.color, Fin(100)))

\* ... and the lights li.. one after the other.
RECURSIVE LocalShade(_, _, _, _)
LocalShade(sc, i, li, pixel) ==
    IF li > Len(sc.lights) THEN pixel
    ELSE Only({LocalShade(sc, i, li + 1, p) :
                 p \in {LocalStep(sc, i,
                                  Normalize(VSub(sc.lights[li].pos, i.pos)),
                                  pixel)}})

\* C5 as stated: in that case shade_pixel returns the background colour
\* scaled by 1.0 and makes no recursive call.
C5_DepthZeroMirrorShowsBackground ==
    C5_Case => ret = Some(VMul(v3(0, 400, Scale), Fin(Scale))) /\ calls = 1

\* C5 amended: in that case shade_pixel makes no recursive call and returns
\* the direct shading of the hit (per light the ambient term, plus the
\* Blinn-Phong term of a light whose shadow ray hits nothing); the
\* background adds nothing.
C5_DepthZeroMirrorShadesLocally ==
    C5_Case => ret = Some(LocalShade(scene, OuterHit, 1, v3(0, 0, 0))) /\ calls = 1

\* The case of C5 with a light, the result differing from the background.
C5_Witness ==
    /\ C5_Case
    /\ Len(scene.lights) > 0
    /\ ret # Some(v3(0, 400, Scale))

\* The frame about to run a light's iteration, that light's direction and
\* shadow ray, and whether an object of the scene intersects the shadow ray.
AtLight == pc = "shade" /\ Top.at = "light" /\ Top.li <= Len(scene.lights)
TopLightDir == Normalize(VSub(scene.lights[Top.li].pos, Top.isect[1].pos))
TopShadowRay ==
    Ray(VAdd(Top.isect[1].pos, VMul(TopLightDir, Fin(1))), TopLightDir)
TopShadowIntersects == ~IntersectsNothing(scene, TopShadowRay)
TopAmbient == VMul(Top.isect[1].material.color, Fin(100))

\* C6: the iteration of a light whose shadow ray intersects an object of the
\* scene adds to the accumulated colour only the ambient term (hit colour *
\* 0.1); the iteration of a light whose shadow ray intersects nothing adds
\* the Blinn-Phong term and the ambient term.
C6_ShadowedLightAddsAmbientOnly ==
    [][AtLight =>
         stack'[Len(stack)].pixel =
            IF TopShadowIntersects THEN VAdd(Top.pixel, TopAmbient)
            ELSE VAdd(VAdd(Top.pixel, blinn_phong(TopLightDir, Top.isect[1])),
                      TopAmbient)]_vars

\* C7: every recursive call has a budget one less than its caller's, no
\* call has a negative budget, at most 4 calls are nested (never more than
\* the outermost budget + 1), and every call made returns.
ShadeRunning == pc = "shade"

C7_Nesting ==
    ShadeRunning =>
        /\ Len(stack) <= Outer.trace_depth + 1
        /\ Len(stack) <= 4
        /\ \A i \in 1..Len(stack) :
              /\ stack[i].trace_depth >= 0
              /\ i > 1 => stack[i].trace_depth = stack[i - 1].trace_depth - 1

C7_BoundedDepthAndTermination == []C7_Nesting /\ (ShadeRunning ~> ShadeDone)

\* Four calls are nested, with budgets 3, 2, 1, 0.
C7_Witness ==
    /\ ShadeRunning
    /\ Len(stack) = 4
    /\ \A i \in 1..4 : stack[i].trace_depth = 4 - i

\* The case of C10: a hit on a reflective material, on a positive budget,
\* in a scene with a light.
C10_Case ==
    /\ ShadeDone
    /\ Outer.isect # None
    /\ FGt(OuterHit.material.reflection, Fin(0))
    /\ Outer.trace_depth > 0
    /\ Len(scene.lights) >= 1

\* C10: in that case shade_pixel returns reflection coefficient * what the
\* call shade_pixel(reflected ray, budget - 1) returned, the reflected ray
\* having direction dir - normal * dot(dir, normal) * 2 and origin hit
\* point + 0.001 * that direction: the direct and ambient terms of the
\* lights are discarded.
C10_ReflectionReplacesDirect ==
    C10_Case =>
        /\ inner # None
        /\ inner[1].ray = MirrorRay(ray.dir, OuterHit.normal, OuterHit.pos)
        /\ inner[1].trace_depth = Outer.trace_depth - 1
        /\ ret = Some(VMul(inner[1].pixel, OuterHit.material.reflection))

\* The case of C10 with two lights whose direct terms are not zero.
C10_Witness ==
    /\ C10_Case
    /\ Len(scene.lights) = 2
    /\ LocalShade(scene, OuterHit, 1, v3(0, 0, 0)) # v3(0, 0, 0)
    /\ ret # Some(v3(0, 0, 0))

-----------------------------------------------------------------------------
(* Properties of raytrace, under SpecRender *)

RenderDone == pc = "render_done"
AnyDone == pc = "any_done"

\* The stores whose index is i.
StoresAt(i) == {k \in 1..Len(writes) : writes[k].index = i}

\* The stores of the grid pixel (x, y).
StoresOf(x, y) == {k \in 1..Len(writes) : writes[k].x = x /\ writes[k].y = y}

\* C2: raytrace returns a buffer of width*height entries, every index
\* written exactly once, the colour shaded for grid pixel (x, y) at index
\* (height-1-y)*width + x.
C2_RowsFlippedEachSlotOnce ==
    RenderDone =>
        /\ Len(pixels) = width * height
        /\ \A i \in 0..(width * height - 1) : Cardinality(StoresAt(i)) = 1
        /\ \A x \in 0..(width - 1), y \in 0..(height - 1) :
              /\ Cardinality(StoresOf(x, y)) = 1
              /\ \A k \in StoresOf(x, y) :
                    /\ writes[k].index = (height - 1 - y) * width + x
                    /\ pixels[(height - 1 - y) * width + x + 1] = writes[k].colour

\* A render of at least two rows and two columns whose first and last grid
\* rows differ in colour.
C2_Witness ==
    /\ RenderDone
    /\ width >= 2 /\ height >= 2
    /\ pixels[1] # pixels[(height - 1) * width + 1]

\* C8, the buffer: shading and storing the pixels in any order gives the
\* buffer raytrace returns.
C8_SameBuffer == AnyDone => shuffled = pixels

\* C8, the scene: no step of a render changes the scene.
C8_SceneKept == pc # "idle" => scene' = scene

\* C8, the slots: a step changes no slot but the slot of the pixel it stores.
C8_OwnSlotOnly ==
    caller = "any" /\ caller' = "any" =>
        \A i \in 1..Len(shuffled) :
            shuffled'[i] # shuffled[i] =>
                \E j \in jobs :
                    /\ jobs' = jobs \ {j}
                    /\ i = (height - 1 - j.y) * width + j.x + 1

\* C8: the final buffer is the same for every order and interleaving in which
\* the pixels are processed; processing a pixel writes only that pixel's
\* slot and never modifies the scene.
C8_OrderIndependent ==
    /\ []C8_SameBuffer
    /\ [][C8_SceneKept]_vars
    /\ [][C8_OwnSlotOnly]_vars

\* Out of order: the first grid pixel is not yet shaded while another one is
\* stored, in a picture of more than one colour.
C8_Witness ==
    /\ pc = "any"
    /\ [x |-> 0, y |-> 0] \in todo
    /\ jobs = {}
    /\ Cardinality(todo) < width * height
    /\ shuffled # NewBuffer(width * height)
    /\ \E i \in 1..Len(pixels) : pixels[i] # pixels[1]

=============================================================================
